---- MODULE Spec2Model ----
(***************************************************************************)
(* Signature verification desktop application: main.py (the application   *)
(* session object and its handlers) and signature.py (image loader,       *)
(* similarity scorer, upload helper, camera capture).                     *)
(*                                                                         *)
(* Strings are sequences of one-character strings so that the prefix,     *)
(* suffix, lower-casing and trimming tests of the code are computed and   *)
(* not assumed.  Similarity values are integers: the structural           *)
(* similarity index in units of 10^-5, the percentage returned by match   *)
(* in hundredths of a percent (so the value -1 is -100).                  *)
(***************************************************************************)
EXTENDS Integers, Sequences, FiniteSets, TLC

VARIABLES phase, mongoAttempts, store, status, last, cam

vars == <<phase, mongoAttempts, store, status, last, cam>>

(* ---------------------------------------------------------------------- *)
(* Bounds                                                                  *)
(* ---------------------------------------------------------------------- *)
MaxStore == 2
MaxFrames == 2

(* ---------------------------------------------------------------------- *)
(* String helpers (str.startswith, str.endswith, str.lower, str.strip,    *)
(* the `in` substring test)                                               *)
(* ---------------------------------------------------------------------- *)
StartsWith(s, p) ==
    /\ Len(s) >= Len(p)
    /\ SubSeq(s, 1, Len(p)) = p

EndsWith(s, p) ==
    /\ Len(s) >= Len(p)
    /\ SubSeq(s, Len(s) - Len(p) + 1, Len(s)) = p

LowerChar(c) ==
    CASE c = "A" -> "a"
      [] c = "B" -> "b"
      [] c = "D" -> "d"
      [] c = "E" -> "e"
      [] c = "F" -> "f"
      [] c = "H" -> "h"
      [] c = "P" -> "p"
      [] c = "T" -> "t"
      [] OTHER -> c

Lower(s) == [i \in 1..Len(s) |-> LowerChar(s[i])]

RECURSIVE LStrip(_)
LStrip(s) == IF s # <<>> /\ Head(s) = " " THEN LStrip(Tail(s)) ELSE s

RECURSIVE RStrip(_)
RStrip(s) ==
    IF s # <<>> /\ s[Len(s)] = " " THEN RStrip(SubSeq(s, 1, Len(s) - 1)) ELSE s

Strip(s) == RStrip(LStrip(s))

Contains(s, sub) ==
    \E i \in 1..(Len(s) + 1) :
        /\ i + Len(sub) - 1 <= Len(s)
        /\ SubSeq(s, i, i + Len(sub) - 1) = sub

(* Position of the first occurrence of sub in s at or after from, 0 if none *)
Find(s, sub, from) ==
    LET hits == {i \in from..Len(s) :
                    /\ i + Len(sub) - 1 <= Len(s)
                    /\ SubSeq(s, i, i + Len(sub) - 1) = sub}
    IN  IF hits = {} THEN 0 ELSE CHOOSE i \in hits : \A j \in hits : i <= j

(* ---------------------------------------------------------------------- *)
(* String literals of the code                                            *)
(* ---------------------------------------------------------------------- *)
HttpPrefix == <<"h","t","t","p">>
PdfSuffix == <<".","p","d","f">>
CloudinaryMarker == <<"c","l","o","u","d","i","n","a","r","y">>
SecureUrlBase == <<"h","t","t","p","s",":","/","/","c","l","o","u","d","i","n","a","r","y","/">>
TempImgName == <<"t","e","m","p","/","t","e","s","t","_","i","m","g","1",".","p","n","g">>

(* ---------------------------------------------------------------------- *)
(* The entries the operator can type, and what the sources hold           *)
(* ---------------------------------------------------------------------- *)
UrlA == <<"h","t","t","p",":","/","/","x","/","A">>
UrlPdf == <<"h","t","t","p",":","/","/","x","/","A",".","p","d","f">>
FileB == <<"B",".","p","n","g">>
FileBPadded == <<" ","B",".","p","n","g"," ">>
FileHttpNamed == <<"h","t","t","p","A",".","p","n","g">>
PdfAB == <<"A","B",".","P","D","F">>
PdfEmpty == <<"E",".","p","d","f">>

(* Contents of the user identifier field *)
UserEntries == { <<"u">>, <<" ","v">>, <<>> }

(* Contents of the signature file field when Save is pressed *)
SaveEntries == { UrlA, FileB, FileBPadded, PdfEmpty, <<>> }

(* Contents of the signature file field when Verify is pressed *)
VerifyEntries == { UrlA, UrlPdf, FileB, FileHttpNamed, PdfAB, PdfEmpty, <<>> }

Images == {"A", "B"}
NoImage == "None"

(* What an HTTP GET of url followed by cv2.imdecode yields.  An uploaded   *)
(* asset is served under the URL the upload returned; a PDF body does not  *)
(* decode as an image; anything that is not an absolute http(s) URL makes  *)
(* requests.get raise before any traffic.                                  *)
WebContent(url) ==
    CASE url = UrlA -> "A"
      [] /\ StartsWith(url, SecureUrlBase)
         /\ url[Len(url)] \in Images
         /\ url[Len(url) - 1] = "/" -> url[Len(url)]
      [] OTHER -> NoImage

(* Pages convert_from_path renders for a local PDF (empty: none or error)  *)
PdfPages(path) ==
    CASE path = PdfAB -> <<"A", "B">>
      [] OTHER -> <<>>

(* What cv2.imread yields for a local path                                 *)
DiskImage(path) ==
    CASE path = FileB -> "B"
      [] path = FileHttpNamed -> "A"
      [] OTHER -> NoImage

(* Name under which the storage service serves an uploaded local file;     *)
(* empty when the file does not exist and the upload raises.               *)
UploadedName(file_path) ==
    CASE file_path = FileB -> <<"B">>
      [] file_path = PdfAB -> <<"A","B",".","p","d","f">>
      [] OTHER -> <<>>

(* Values the structural similarity index of two different rasters is      *)
(* sampled at, in units of 10^-5                                           *)
SsimValues == {0 - 1006, 0 - 1000, 74996}

(* What the collaborators do during one Save: the upload and the insert    *)
(* succeed, the upload raises, or the insert raises                        *)
SaveEnvs ==
    { [uploadOk |-> TRUE, dbOk |-> TRUE],
      [uploadOk |-> FALSE, dbOk |-> TRUE],
      [uploadOk |-> TRUE, dbOk |-> FALSE] }

(* What the collaborators do during one Verify: the lookup raises, the     *)
(* network is down, the preview window cannot be shown, or all of them     *)
(* work and the two rasters have the given similarity index                *)
VerifyEnvs ==
    { [dbOk |-> FALSE, netOk |-> TRUE, previewOk |-> TRUE, ssimIn |-> 0],
      [dbOk |-> TRUE, netOk |-> FALSE, previewOk |-> TRUE, ssimIn |-> 0],
      [dbOk |-> TRUE, netOk |-> TRUE, previewOk |-> FALSE, ssimIn |-> 0] }
    \cup { [dbOk |-> TRUE, netOk |-> TRUE, previewOk |-> TRUE, ssimIn |-> v] :
              v \in SsimValues }

(* ---------------------------------------------------------------------- *)
(* signature.py                                                            *)
(* ---------------------------------------------------------------------- *)
(* urlparse(url).netloc *)
Netloc(url) ==
    LET c == Find(url, <<":">>, 1)
    IN  IF c = 0 \/ ~StartsWith(SubSeq(url, c + 1, Len(url)), <<"/","/">>)
        THEN <<>>
        ELSE LET e == Find(url, <<"/">>, c + 3)
             IN  IF e = 0 THEN SubSeq(url, c + 3, Len(url))
                 ELSE SubSeq(url, c + 3, e - 1)

is_cloudinary_url(url) == Contains(Netloc(url), CloudinaryMarker)

(* Returns the secure URL, or <<>> for None (upload raised or no URL)      *)
save_signature_file(file_path, user_id, uploadOk) ==
    IF uploadOk /\ UploadedName(file_path) # <<>>
    THEN SecureUrlBase \o user_id \o <<"/">> \o UploadedName(file_path)
    ELSE <<>>

download_image(url, netOk) ==
    IF netOk THEN WebContent(url) ELSE NoImage

extract_first_page_from_pdf(pdf_path) ==
    LET images == PdfPages(pdf_path)
    IN  IF images # <<>> THEN images[1] ELSE NoImage

(* The loader that ran and the image it returned *)
load_image(path, netOk) ==
    IF StartsWith(path, HttpPrefix)
    THEN [path |-> path, loader |-> "download", img |-> download_image(path, netOk)]
    ELSE IF EndsWith(Lower(path), PdfSuffix)
    THEN [path |-> path, loader |-> "pdf", img |-> extract_first_page_from_pdf(path)]
    ELSE [path |-> path, loader |-> "imread", img |-> DiskImage(path)]

(* skimage structural_similarity of the two canonical 300x300 rasters *)
ssim(img1, img2, ssimIn) == IF img1 = img2 THEN 100000 ELSE ssimIn

(* round(similarity_value * 100, 2), in hundredths *)
Round2(s5) ==
    LET q == s5 \div 10
        r == s5 % 10
    IN  IF r < 5 THEN q
        ELSE IF r > 5 THEN q + 1
        ELSE IF q % 2 = 0 THEN q ELSE q + 1

(* The value -1, in hundredths *)
Sentinel == 0 - 100

(* match testing only the first operand for None *)
match_first_only(path1, path2, netOk, previewOk, ssimIn) ==
    LET l1 == load_image(path1, netOk)
        l2 == load_image(path2, netOk)
    IN  IF l1.img = NoImage
        THEN [result |-> Sentinel, loads |-> <<l1, l2>>, ssim_called |-> FALSE]
        ELSE IF ~previewOk
        THEN [result |-> Sentinel, loads |-> <<l1, l2>>, ssim_called |-> FALSE]
        ELSE [result |-> Round2(ssim(l1.img, l2.img, ssimIn)),
              loads |-> <<l1, l2>>, ssim_called |-> TRUE]

match(path1, path2, netOk, previewOk, ssimIn) ==
    LET l1 == load_image(path1, netOk)
        l2 == load_image(path2, netOk)
    IN  IF l1.img = NoImage \/ l2.img = NoImage
        THEN [result |-> Sentinel, loads |-> <<l1, l2>>, ssim_called |-> FALSE]
        ELSE IF ~previewOk
        THEN [result |-> Sentinel, loads |-> <<l1, l2>>, ssim_called |-> FALSE]
        ELSE [result |-> Round2(ssim(l1.img, l2.img, ssimIn)),
              loads |-> <<l1, l2>>, ssim_called |-> TRUE]

(* ---------------------------------------------------------------------- *)
(* main.py                                                                 *)
(* ---------------------------------------------------------------------- *)
SimilarityThreshold == 7500

(* What a handler did: the fields it read, the calls it made, the message  *)
(* boxes it opened.                                                        *)
NoTrace ==
    [op |-> "none", user_id |-> <<>>, path |-> <<>>, error |-> "none",
     loads |-> <<>>, similarity |-> <<>>,
     ssim_called |-> FALSE, uploaded |-> FALSE, displayed |-> FALSE,
     boxes |-> {}]

NoCam == [pc |-> "idle", handle |-> "closed", frames |-> 0]

Init ==
    /\ phase = "boot"
    /\ mongoAttempts = 0
    /\ store = <<>>
    /\ status = [text |-> "", is_error |-> FALSE]
    /\ last = NoTrace
    /\ cam = NoCam

(* launch_app -> __init__ -> get_database_connection.  A missing URI       *)
(* raises ValueError, which the except clause for ConfigurationError does  *)
(* not catch; an unparsable URI raises ConfigurationError, which opens the *)
(* message box and is raised again.  Either exception leaves launch_app.   *)
get_database_connection(mongo_uri) ==
    CASE mongo_uri = "missing" -> [connected |-> FALSE, boxes |-> {}, error |-> "ValueError"]
      [] mongo_uri = "invalid" ->
            [connected |-> FALSE, boxes |-> {"Database Error"}, error |-> "ConfigurationError"]
      [] OTHER -> [connected |-> TRUE, boxes |-> {}, error |-> "none"]

launch_app ==
    /\ phase = "boot"
    /\ \E mongo_uri \in {"missing", "invalid", "ok"} :
          LET r == get_database_connection(mongo_uri)
          IN  /\ phase' = IF r.connected THEN "running" ELSE "crashed"
              /\ last' = [NoTrace EXCEPT !.op = "launch", !.error = r.error,
                                         !.boxes = r.boxes]
    /\ mongoAttempts' = mongoAttempts + 1
    /\ UNCHANGED <<store, status, cam>>

(* find_one with the filter dropped: the first document of the collection *)
find_one_unfiltered(st, user_id) ==
    IF st = <<>> THEN <<>> ELSE <<st[1]>>

(* db.signatures.find_one({"user_id": user_id}): the first matching        *)
(* document in insertion order, <<>> for None                              *)
find_one(st, user_id) ==
    LET hits == {i \in 1..Len(st) : st[i].user_id = user_id}
    IN  IF hits = {} THEN <<>>
        ELSE <<st[CHOOSE i \in hits : \A j \in hits : i <= j]>>

ErrorStatus(kind) == [text |-> kind, is_error |-> TRUE]

(* `if not user_id or not file_path` with `and` in place of `or` *)
RequiredFieldsMissingBoth(user_id, file_path) ==
    user_id = <<>> /\ file_path = <<>>

(* `if not user_id or not file_path` *)
RequiredFieldsMissing(user_id, file_path) ==
    user_id = <<>> \/ file_path = <<>>

(* The comparison with a strict threshold test *)
DecisionStrict(similarity) ==
    IF similarity = Sentinel THEN "error"
    ELSE IF similarity > SimilarityThreshold THEN "match"
    ELSE "nonmatch"

(* The branch on_verify_signature takes on the value match returned *)
Decision(similarity) ==
    IF similarity = Sentinel THEN "error"
    ELSE IF similarity >= SimilarityThreshold THEN "match"
    ELSE "nonmatch"

(* Body of on_save_signature: the new store, status label and trace *)
save_signature(st, user_entry, path_entry, uploadOk, dbOk) ==
    LET user_id == Strip(user_entry)
        file_path == Strip(path_entry)
        t0 == [NoTrace EXCEPT !.op = "save", !.user_id = user_id, !.path = file_path]
        local == ~StartsWith(file_path, HttpPrefix)
        uploaded_url == save_signature_file(file_path, user_id, uploadOk)
        cloudinary_url == IF local THEN uploaded_url ELSE file_path
        t1 == [t0 EXCEPT !.uploaded = local]
    IN  IF RequiredFieldsMissing(user_id, file_path)
        THEN [store |-> st, status |-> ErrorStatus("RequiredFields"),
              last |-> [t0 EXCEPT !.error = "RequiredFields"]]
        ELSE IF local /\ cloudinary_url = <<>>
        THEN [store |-> st, status |-> ErrorStatus("UploadFailed"),
              last |-> [t1 EXCEPT !.error = "UploadFailed"]]
        ELSE IF ~dbOk
        THEN [store |-> st, status |-> ErrorStatus("DatabaseError"),
              last |-> [t1 EXCEPT !.error = "DatabaseError"]]
        ELSE [store |-> Append(st, [user_id |-> user_id, signature_url |-> cloudinary_url]),
              status |-> [text |-> "Signature saved successfully!", is_error |-> FALSE],
              last |-> t1]

on_save_signature ==
    /\ phase = "running"
    /\ cam.pc = "idle"
    /\ Len(store) < MaxStore
    /\ \E user_entry \in UserEntries, path_entry \in SaveEntries, env \in SaveEnvs :
          LET r == save_signature(store, user_entry, path_entry, env.uploadOk, env.dbOk)
          IN  /\ store' = r.store
              /\ status' = r.status
              /\ last' = r.last
    /\ UNCHANGED <<phase, mongoAttempts, cam>>

(* Body of on_verify_signature: the status label and trace *)
verify_signature(st, user_entry, path_entry, dbOk, netOk, previewOk, ssimIn) ==
    LET user_id == Strip(user_entry)
        new_signature_path == Strip(path_entry)
        t0 == [NoTrace EXCEPT !.op = "verify", !.user_id = user_id,
                              !.path = new_signature_path]
        user_record == find_one(st, user_id)
        existing_signature_url == user_record[1].signature_url
        shown == is_cloudinary_url(existing_signature_url)
        t1 == [t0 EXCEPT !.displayed = shown,
                         !.boxes = IF shown /\ download_image(existing_signature_url, netOk) = NoImage
                                   THEN {"Error"} ELSE {}]
        m == match(existing_signature_url, new_signature_path, netOk, previewOk, ssimIn)
        similarity == m.result
        t2 == [t1 EXCEPT !.loads = m.loads, !.similarity = <<similarity>>,
                         !.ssim_called = m.ssim_called]
    IN  IF RequiredFieldsMissing(user_id, new_signature_path)
        THEN [status |-> ErrorStatus("RequiredFields"),
              last |-> [t0 EXCEPT !.error = "RequiredFields"]]
        ELSE IF ~dbOk
        THEN [status |-> ErrorStatus("DatabaseError"),
              last |-> [t0 EXCEPT !.error = "DatabaseError"]]
        ELSE IF user_record = <<>>
        THEN [status |-> ErrorStatus("NoRecordFound"),
              last |-> [t0 EXCEPT !.error = "NoRecordFound"]]
        ELSE IF existing_signature_url = <<>>
        THEN [status |-> ErrorStatus("NoSignatureUrl"),
              last |-> [t0 EXCEPT !.error = "NoSignatureUrl"]]
        ELSE IF Decision(similarity) = "error"
        THEN [status |-> ErrorStatus("CompareFailed"),
              last |-> [t2 EXCEPT !.error = "CompareFailed"]]
        ELSE IF Decision(similarity) = "match"
        THEN [status |-> [text |-> "Signatures match!", is_error |-> FALSE],
              last |-> [t2 EXCEPT !.boxes = @ \cup {"Verification Successful"}]]
        ELSE [status |-> [text |-> "Signatures do not match.", is_error |-> TRUE],
              last |-> [t2 EXCEPT !.boxes = @ \cup {"Verification Failed"}]]

on_verify_signature ==
    /\ phase = "running"
    /\ cam.pc = "idle"
    /\ \E user_entry \in UserEntries, path_entry \in VerifyEntries, env \in VerifyEnvs :
          LET r == verify_signature(store, user_entry, path_entry, env.dbOk, env.netOk,
                                    env.previewOk, env.ssimIn)
          IN  /\ status' = r.status
              /\ last' = r.last
    /\ UNCHANGED <<phase, mongoAttempts, store, cam>>

(* capture_from_camera -> capture_image_from_cam_into_temp, up to the      *)
(* preview loop: cv2.VideoCapture(0) and the isOpened test                 *)
capture_open(deviceOk) ==
    IF deviceOk
    THEN [cam |-> [pc |-> "preview", handle |-> "open", frames |-> 0],
          status |-> status,
          last |-> [NoTrace EXCEPT !.op = "capture"]]
    ELSE [cam |-> NoCam,
          status |-> ErrorStatus("Error capturing image from camera."),
          last |-> [NoTrace EXCEPT !.op = "capture", !.error = "DeviceUnavailable"]]

capture_from_camera ==
    /\ phase = "running"
    /\ cam.pc = "idle"
    /\ \E deviceOk \in BOOLEAN :
          LET r == capture_open(deviceOk)
          IN  /\ cam' = r.cam
              /\ status' = r.status
              /\ last' = r.last
    /\ UNCHANGED <<phase, mongoAttempts, store>>

KeyCodes == {0 - 1, 27, 32, 97, 283}

(* One iteration of the preview loop and, when it leaves the loop, the     *)
(* rest of the capture and of capture_from_camera                          *)
capture_frame(c, ret, key) ==
    IF ~ret
    THEN [cam |-> [c EXCEPT !.pc = "idle", !.frames = 0],
          status |-> ErrorStatus("Error capturing image from camera."),
          last |-> [NoTrace EXCEPT !.op = "capture", !.error = "FrameGrabFailed"]]
    ELSE IF key % 256 = 27
    THEN [cam |-> [pc |-> "idle", handle |-> "closed", frames |-> 0],
          status |-> ErrorStatus("Error capturing image from camera."),
          last |-> [NoTrace EXCEPT !.op = "capture", !.error = "Cancelled"]]
    ELSE IF key % 256 = 32
    THEN [cam |-> [pc |-> "idle", handle |-> "closed", frames |-> 0],
          status |-> [text |-> "Captured image from camera successfully!",
                      is_error |-> FALSE],
          last |-> [NoTrace EXCEPT !.op = "capture", !.path = TempImgName]]
    ELSE [cam |-> [c EXCEPT !.frames = c.frames + 1],
          status |-> status,
          last |-> last]

preview_loop ==
    /\ phase = "running"
    /\ cam.pc = "preview"
    /\ \E ret \in BOOLEAN, key \in KeyCodes :
          LET r == capture_frame(cam, ret, key)
          IN  /\ r.cam.frames <= MaxFrames
              /\ cam' = r.cam
              /\ status' = r.status
              /\ last' = r.last
    /\ UNCHANGED <<phase, mongoAttempts, store>>

(* on_close: root.quit(); root.destroy() end the loop of launch_app *)
on_close ==
    /\ phase = "running"
    /\ cam.pc = "idle"
    /\ phase' = "closed"
    /\ status' = [text |-> "", is_error |-> FALSE]
    /\ last' = [NoTrace EXCEPT !.op = "close"]
    /\ UNCHANGED <<mongoAttempts, store, cam>>

Next ==
    \/ launch_app
    \/ on_save_signature
    \/ on_verify_signature
    \/ capture_from_camera
    \/ preview_loop
    \/ on_close

Spec == Init /\ [][Next]_vars

(* ---------------------------------------------------------------------- *)
(* Properties                                                              *)
(* ---------------------------------------------------------------------- *)
Verified == last.op = "verify"

Compared == Verified /\ last.loads # <<>>

SomeLoadFailed == \E i \in 1..Len(last.loads) : last.loads[i].img = NoImage

AllLoaded == \A i \in 1..Len(last.loads) : last.loads[i].img # NoImage

HasRecord(user_id) == \E i \in 1..Len(store) : store[i].user_id = user_id

DecisionTexts == {"Signatures match!", "Signatures do not match."}

ErrorTexts == {"RequiredFields", "DatabaseError", "NoRecordFound",
               "NoSignatureUrl", "CompareFailed"}

SavedReference(u, r) ==
    IF StartsWith(r, HttpPrefix) THEN r ELSE save_signature_file(r, u, TRUE)

SavedFor(u, r) ==
    \E i \in 1..Len(store) :
        /\ store[i].user_id = u
        /\ store[i].signature_url = SavedReference(u, r)

(* C2: once reference R has been saved for user u, a verify of u against R *)
(* that compares the two images yields 100.00 and a match decision,        *)
(* whatever was saved before.                                              *)
C2_SavedThenVerifiedIsMatch ==
    (Verified /\ last.ssim_called /\ SavedFor(last.user_id, last.path)) =>
        /\ last.similarity = <<10000>>
        /\ status.text = "Signatures match!"

C5_SentinelDistinctFromScores ==
    (Compared /\ AllLoaded /\ last.ssim_called) => last.similarity # <<Sentinel>>

(* C6: the store never holds two records with the same user identifier.    *)
C6_OneRecordPerUser ==
    \A i, j \in 1..Len(store) :
        store[i].user_id = store[j].user_id => i = j

(* C7: a startup without MONGO_URI fails, shows the user a message and     *)
(* makes one connection attempt only.                                      *)
C7_MissingUriSurfaced ==
    (last.op = "launch" /\ last.error = "ValueError") =>
        /\ phase = "crashed"
        /\ last.boxes # {}
        /\ mongoAttempts = 1

(* A source that begins with an HTTP scheme (schemes compare without case) *)
HasHttpScheme(path) ==
    \/ StartsWith(Lower(path), <<"h","t","t","p",":","/","/">>)
    \/ StartsWith(Lower(path), <<"h","t","t","p","s",":","/","/">>)

(* C8: every call of load_image runs the one loader the dispatch rule      *)
(* names: the network fetch for a source beginning with an HTTP scheme,    *)
(* else the first-page PDF render for a .pdf suffix in any case, else the  *)
(* local decode; a source without an HTTP scheme is never handed to the    *)
(* network fetch.                                                          *)
C8_LoaderDispatch ==
    \A i \in 1..Len(last.loads) :
        LET l == last.loads[i]
        IN  l.loader =
               IF HasHttpScheme(l.path) THEN "download"
               ELSE IF EndsWith(Lower(l.path), PdfSuffix) THEN "pdf"
               ELSE "imread"

(* C9: a verify reports a match exactly when match returned a value that   *)
(* is not -1 and is >= 75.00, a non-match exactly when it is not -1 and    *)
(* below 75.00, an error otherwise; -1 never yields a decision.            *)
C9_DecisionFollowsScore ==
    Verified =>
        LET scored == last.similarity # <<>> /\ last.similarity[1] # 0 - 100
        IN  /\ status.text \in DecisionTexts \cup ErrorTexts
            /\ status.text = "Signatures match!" <=>
                  (scored /\ last.similarity[1] >= 7500)
            /\ status.text = "Signatures do not match." <=>
                  (scored /\ last.similarity[1] < 7500)
            /\ status.text \in ErrorTexts <=> ~scored
            /\ "Verification Successful" \in last.boxes <=>
                  status.text = "Signatures match!"
            /\ "Verification Failed" \in last.boxes <=>
                  status.text = "Signatures do not match."
            /\ status.is_error <=> status.text # "Signatures match!"

(* The score 75.00 exactly was returned and reported as a match.           *)
C9_Witness ==
    /\ Verified
    /\ last.similarity = <<7500>>
    /\ status.text = "Signatures match!"

StoredRecordsWellFormed ==
    \A i \in 1..Len(store) :
        /\ store[i].user_id # <<>>
        /\ store[i].user_id[1] # " "
        /\ store[i].user_id[Len(store[i].user_id)] # " "
        /\ store[i].signature_url # <<>>

SaveStep ==
    /\ (last'.op = "save" /\ last'.error # "none") => store' = store
    /\ store' # store =>
          /\ last'.op = "save"
          /\ last'.error = "none"
          /\ last'.user_id # <<>>
          /\ last'.path # <<>>
          /\ Len(store') = Len(store) + 1
          /\ SubSeq(store', 1, Len(store)) = store
          /\ store'[Len(store')].user_id = last'.user_id
          /\ last'.uploaded <=> ~StartsWith(last'.path, HttpPrefix)
          /\ ~last'.uploaded => store'[Len(store')].signature_url = last'.path
          /\ last'.uploaded => store'[Len(store')].signature_url # <<>>

(* C10: a record is inserted only by a save whose fields are non-empty     *)
(* after trimming and, for a source not starting with 'http', whose upload *)
(* returned a URL; a failed save leaves the store unchanged; a source      *)
(* starting with 'http' is stored as given without upload; every stored    *)
(* record has a non-empty trimmed user identifier and a non-empty asset    *)
(* reference.                                                              *)
C10_InsertOnlyAfterChecks ==
    [][SaveStep /\ StoredRecordsWellFormed']_vars

(* A record saved from a padded entry through an upload is in the store.   *)
C10_Witness ==
    /\ last.op = "save"
    /\ last.error = "none"
    /\ last.uploaded
    /\ store # <<>>
    /\ store[Len(store)].user_id = <<"v">>
====
